---- MODULE Spec2Model ----
(***************************************************************************)
(* Model of src/app1.py: the ET demo page (parse_series,                   *)
(* compute_et_segments and the two-tab Streamlit session of render_tab).   *)
(*                                                                         *)
(* Python floats are modelled as exact rationals <<n, d>> in lowest terms  *)
(* (d > 0), extended with the non-finite values +inf = <<1, 0>>,           *)
(* -inf = <<-1, 0>> and nan = <<0, 0>>.  Binary rounding is not modelled.  *)
(* A float division by zero, which Python turns into ZeroDivisionError,    *)
(* is the marker <<0, -1>>; it propagates through arithmetic and makes     *)
(* the enclosing call raise.                                               *)
(***************************************************************************)
EXTENDS Integers, Sequences, FiniteSets, TLC

\* ------------------------------------------------------------------
\* Bounds of the model
\* ------------------------------------------------------------------
MaxTextLen == 4
MaxRawLen == 3

\* ------------------------------------------------------------------
\* float values and arithmetic
\* ------------------------------------------------------------------
NaN == <<0, 0>>
PosInf == <<1, 0>>
NegInf == <<-1, 0>>
ZeroDivisionError == <<0, -1>>

Abs(n) == IF n < 0 THEN -n ELSE n

RECURSIVE GCD(_, _)
GCD(a, b) == IF b = 0 THEN a ELSE GCD(b, a % b)

\* the float n/d, d # 0, in lowest terms with a positive denominator
Norm(n, d) ==
    LET s == IF d < 0 THEN -1 ELSE 1
        g == GCD(Abs(n), Abs(d))
    IN  <<(s * n) \div g, (s * d) \div g>>

Fl(n) == <<n, 1>>

IsErr(x) == x = ZeroDivisionError
IsNaN(x) == x = NaN
IsInf(x) == x = PosInf \/ x = NegInf
IsFinite(x) == x[2] > 0
Sign(x) == IF x[1] > 0 THEN 1 ELSE IF x[1] < 0 THEN -1 ELSE 0
InfOf(s) == IF s > 0 THEN PosInf ELSE NegInf

\* Python: x == 0 (false for nan and the infinities)
FIsZero(x) == IsFinite(x) /\ x[1] = 0

\* Python: x - y
FSub(x, y) ==
    IF IsErr(x) \/ IsErr(y) THEN ZeroDivisionError
    ELSE IF IsNaN(x) \/ IsNaN(y) THEN NaN
    ELSE IF IsInf(x) /\ IsInf(y) THEN (IF x = y THEN NaN ELSE x)
    ELSE IF IsInf(x) THEN x
    ELSE IF IsInf(y) THEN InfOf(-Sign(y))
    ELSE Norm(x[1] * y[2] - y[1] * x[2], x[2] * y[2])

\* Python: x * y
FMul(x, y) ==
    IF IsErr(x) \/ IsErr(y) THEN ZeroDivisionError
    ELSE IF IsNaN(x) \/ IsNaN(y) THEN NaN
    ELSE IF IsInf(x) \/ IsInf(y)
         THEN (IF Sign(x) * Sign(y) = 0 THEN NaN ELSE InfOf(Sign(x) * Sign(y)))
    ELSE Norm(x[1] * y[1], x[2] * y[2])

\* Python: x / y (raises ZeroDivisionError when y == 0)
FDiv(x, y) ==
    IF IsErr(x) \/ IsErr(y) THEN ZeroDivisionError
    ELSE IF FIsZero(y) THEN ZeroDivisionError
    ELSE IF IsNaN(x) \/ IsNaN(y) THEN NaN
    ELSE IF IsInf(x) /\ IsInf(y) THEN NaN
    ELSE IF IsInf(x) THEN InfOf(Sign(x) * Sign(y))
    ELSE IF IsInf(y) THEN Fl(0)
    ELSE Norm(x[1] * y[2], x[2] * y[1])

\* Python: x <= y and x < y (false when either side is nan)
FLe(x, y) ==
    /\ ~IsNaN(x) /\ ~IsNaN(y)
    /\ IF IsInf(x) \/ IsInf(y)
       THEN x = y \/ x = NegInf \/ y = PosInf
       ELSE x[1] * y[2] <= y[1] * x[2]

FLt(x, y) == FLe(x, y) /\ x # y

\* ------------------------------------------------------------------
\* ET segment logic
\* ------------------------------------------------------------------
\* pct_delta without the a == 0 guard
pct_delta_unguarded(a, b) == FDiv(FMul(Fl(100), FSub(b, a)), a)

\* lines 62-65: the guarded percentage change from a to b
pct_delta(a, b) ==
    IF FIsZero(a) THEN Fl(0)
    ELSE FDiv(FMul(Fl(100), FSub(b, a)), a)

\* line 67
T_of(pct, denom) == FDiv(pct, denom)

\* E with the sign of the square flipped
E_of_plus(T) == FSub(Fl(1), FMul(Fl(-1), FMul(T, T)))

\* line 68
E_of(T) == FSub(Fl(1), FMul(T, T))

\* the segment numbered by the 0-based offset of its first point
ETSegment_zero_based(raw, denom, i) ==
    LET a == raw[i]
        b == raw[i + 1]
        pct == pct_delta(a, b)
        T == T_of(pct, denom)
        E == E_of(T)
    IN  [seg_idx |-> i - 1, raw_from |-> a, raw_to |-> b,
         pct_delta |-> pct, T |-> T, E |-> E]

\* lines 58-79: the segment built by loop iteration i
ETSegment(raw, denom, i) ==
    LET a == raw[i]
        b == raw[i + 1]
        pct == pct_delta(a, b)
        T == T_of(pct, denom)
        E == E_of(T)
    IN  [seg_idx |-> i, raw_from |-> a, raw_to |-> b,
         pct_delta |-> pct, T |-> T, E |-> E]

\* lines 57-79: the loop over range(1, len(raw)), appending in order
RECURSIVE seg_loop(_, _, _, _)
seg_loop(raw, denom, i, segs) ==
    IF i >= Len(raw) THEN segs
    ELSE seg_loop(raw, denom, i + 1, Append(segs, ETSegment(raw, denom, i)))

\* compute_et_segments rejecting a series of fewer than 2 points
compute_et_segments_strict(raw, denom) ==
    IF Len(raw) < 2 THEN [exc |-> "InsufficientPoints", segs |-> <<>>]
    ELSE LET segs == seg_loop(raw, denom, 1, <<>>)
         IN  IF \E k \in 1..Len(segs) :
                    IsErr(segs[k].pct_delta) \/ IsErr(segs[k].T) \/ IsErr(segs[k].E)
             THEN [exc |-> "ZeroDivisionError", segs |-> <<>>]
             ELSE [exc |-> "none", segs |-> segs]

\* lines 45-80: the outcome of the call, a raised exception or the list
compute_et_segments(raw, denom) ==
    IF Len(raw) < 2 THEN [exc |-> "none", segs |-> <<>>]
    ELSE LET segs == seg_loop(raw, denom, 1, <<>>)
         IN  IF \E k \in 1..Len(segs) :
                    IsErr(segs[k].pct_delta) \/ IsErr(segs[k].T) \/ IsErr(segs[k].E)
             THEN [exc |-> "ZeroDivisionError", segs |-> <<>>]
             ELSE [exc |-> "none", segs |-> segs]

\* ------------------------------------------------------------------
\* Parsing
\* ------------------------------------------------------------------
\* A text is a sequence of one-character strings.
Whitespace == {" ", "\n", "\t"}
Separators == Whitespace \cup {",", ";"}
Digits == {"0", "1", "2", "3", "4", "5", "6", "7", "8", "9"}

DigitVal(c) ==
    CASE c = "0" -> 0 [] c = "1" -> 1 [] c = "2" -> 2 [] c = "3" -> 3
      [] c = "4" -> 4 [] c = "5" -> 5 [] c = "6" -> 6 [] c = "7" -> 7
      [] c = "8" -> 8 [] c = "9" -> 9

\* str.strip(): drop leading and trailing whitespace
RECURSIVE lstrip(_)
lstrip(s) == IF s # <<>> /\ Head(s) \in Whitespace THEN lstrip(Tail(s)) ELSE s

RECURSIVE rstrip(_)
rstrip(s) ==
    IF s # <<>> /\ s[Len(s)] \in Whitespace
    THEN rstrip(SubSeq(s, 1, Len(s) - 1)) ELSE s

strip(s) == rstrip(lstrip(s))

\* re.split(r"[,\s;]+", s): cut at every maximal run of separators; a run
\* at the start or the end of s leaves an empty token there
RECURSIVE skip_run(_, _)
skip_run(s, i) ==
    IF i <= Len(s) /\ s[i] \in Separators THEN skip_run(s, i + 1) ELSE i

RECURSIVE re_split_from(_, _, _, _)
re_split_from(s, i, cur, toks) ==
    IF i > Len(s) THEN Append(toks, cur)
    ELSE IF s[i] \in Separators
         THEN re_split_from(s, skip_run(s, i), <<>>, Append(toks, cur))
         ELSE re_split_from(s, i + 1, Append(cur, s[i]), toks)

re_split(s) == re_split_from(s, 1, <<>>, <<>>)

\* the integer written by a sequence of digits
RECURSIVE DigitsVal(_, _)
DigitsVal(ds, acc) ==
    IF ds = <<>> THEN acc ELSE DigitsVal(Tail(ds), 10 * acc + DigitVal(Head(ds)))

RECURSIVE Pow10(_)
Pow10(k) == IF k = 0 THEN 1 ELSE 10 * Pow10(k - 1)

\* Python float(t) on a non-empty token: an optional sign, then "nan",
\* "inf", or digits with at most one "."; ValueError otherwise.  The
\* exponent, underscore and upper-case forms float() also accepts use
\* characters outside the modelled texts.
float_(t) ==
    LET signed == t # <<>> /\ Head(t) \in {"+", "-"}
        sgn == IF signed /\ Head(t) = "-" THEN -1 ELSE 1
        body == IF signed THEN Tail(t) ELSE t
        dots == {i \in 1..Len(body) : body[i] = "."}
        dot == IF dots = {} THEN Len(body) + 1 ELSE CHOOSE i \in dots : TRUE
        ip == SubSeq(body, 1, dot - 1)
        fp == SubSeq(body, dot + 1, Len(body))
    IN  IF body = <<"n", "a", "n">> THEN [exc |-> "none", val |-> NaN]
        ELSE IF body = <<"i", "n", "f">> THEN [exc |-> "none", val |-> InfOf(sgn)]
        ELSE IF /\ \A i \in 1..Len(body) : body[i] \in Digits \cup {"."}
                /\ Cardinality(dots) <= 1
                /\ Len(ip) + Len(fp) >= 1
             THEN [exc |-> "none",
                   val |-> Norm(sgn * DigitsVal(ip \o fp, 0), Pow10(Len(fp)))]
             ELSE [exc |-> "ValueError", val |-> NaN]

\* the token loop skipping a value it has already collected
RECURSIVE parse_loop_dedup(_, _, _)
parse_loop_dedup(tokens, k, vals) ==
    IF k > Len(tokens) THEN [exc |-> "none", token |-> <<>>, vals |-> vals]
    ELSE IF tokens[k] = <<>> THEN parse_loop_dedup(tokens, k + 1, vals)
    ELSE LET f == float_(tokens[k])
         IN  IF f.exc = "none" /\ \A j \in 1..Len(vals) : vals[j] # f.val
             THEN parse_loop_dedup(tokens, k + 1, Append(vals, f.val))
             ELSE parse_loop_dedup(tokens, k + 1, vals)

\* lines 22-28: the loop over the tokens; ValueError is swallowed
RECURSIVE parse_loop(_, _, _)
parse_loop(tokens, k, vals) ==
    IF k > Len(tokens) THEN [exc |-> "none", token |-> <<>>, vals |-> vals]
    ELSE IF tokens[k] = <<>> THEN parse_loop(tokens, k + 1, vals)
    ELSE LET f == float_(tokens[k])
         IN  IF f.exc = "none"
             THEN parse_loop(tokens, k + 1, Append(vals, f.val))
             ELSE parse_loop(tokens, k + 1, vals)

\* the token loop of a strict parser: the first bad token aborts the call
RECURSIVE strict_loop(_, _, _)
strict_loop(tokens, k, vals) ==
    IF k > Len(tokens) THEN [exc |-> "none", token |-> <<>>, vals |-> vals]
    ELSE IF tokens[k] = <<>> THEN strict_loop(tokens, k + 1, vals)
    ELSE LET f == float_(tokens[k])
         IN  IF f.exc = "none"
             THEN strict_loop(tokens, k + 1, Append(vals, f.val))
             ELSE [exc |-> "InvalidValue", token |-> tokens[k], vals |-> <<>>]

parse_series_strict(text) ==
    IF text = <<>> \/ strip(text) = <<>>
    THEN [exc |-> "none", token |-> <<>>, vals |-> <<>>]
    ELSE strict_loop(re_split(strip(text)), 1, <<>>)

\* lines 13-29: the outcome of the call (exc is "none": nothing escapes)
parse_series(text) ==
    IF text = <<>> \/ strip(text) = <<>>
    THEN [exc |-> "none", token |-> <<>>, vals |-> <<>>]
    ELSE parse_loop(re_split(strip(text)), 1, <<>>)

\* ------------------------------------------------------------------
\* Inputs of the model
\* ------------------------------------------------------------------
Chars == {"0", "1", "2", ".", "-", ",", ";", " ", "x", "n", "a"}

\* "25, 30, x, 40" and "0 5"
ExampleText == <<"2", "5", ",", " ", "3", "0", ",", " ", "x", ",", " ", "4", "0">>
ZeroText == <<"0", " ", "5">>

\* lines 214 and 221: the default texts of the two tabs
default_hrv ==
    <<"2", "0", "\n", "1", "8", "\n", "1", "6", "\n", "1", "5", "\n",
      "1", "4", "\n", "1", "3", "\n", "1", "4", "\n", "1", "5", "\n",
      "1", "6", "\n", "1", "8", "\n", "2", "0">>
default_vo2 ==
    <<"1", "2", "\n", "1", "5", "\n", "1", "8", "\n", "2", "2", "\n",
      "2", "8", "\n", "3", "5", "\n", "4", "0", "\n", "3", "8", "\n",
      "3", "0", "\n", "2", "2", "\n", "1", "6">>

Texts ==
    UNION {[1..n -> Chars] : n \in 0..MaxTextLen}
        \cup {ExampleText, ZeroText, default_hrv, default_vo2}

RawVals == {Fl(0), Fl(1), Fl(2), Fl(-1), <<1, 2>>, PosInf, NegInf, NaN}
ExampleRaw == <<Fl(25), Fl(30), Fl(35), Fl(40)>>
ZeroRaw == <<Fl(0), Fl(5)>>
Raws == UNION {[1..n -> RawVals] : n \in 0..MaxRawLen} \cup {ExampleRaw, ZeroRaw}

\* line 45: the default denominator
default_denom == Fl(80)
Denoms == {default_denom, Fl(1), <<1, 2>>, PosInf, Fl(0), Fl(-1)}
IsPositive(d) == FLt(Fl(0), d)

\* the texts and denominators (>= 1.0, line 153) a user enters in a tab
Tabs == {"hrv", "vo2"}
default_text(tab) == IF tab = "hrv" THEN default_hrv ELSE default_vo2
UITexts(tab) == {default_text(tab), ZeroText, <<"7">>, <<>>}
UIDenoms == {default_denom, Fl(1)}

\* ------------------------------------------------------------------
\* State
\* ------------------------------------------------------------------
VARIABLES
    op,             \* the core function being called
    pc,             \* "call" before it runs, "done" once it has returned
    text,           \* argument of parse_series
    raw,            \* arguments of compute_et_segments
    denom,
    parsed,         \* outcome of parse_series
    computed,       \* outcome of compute_et_segments
    session_state,  \* st.session_state: a dict keyed by <<tab, name>>
    btn,            \* the tab whose Compute button triggered the last run
    signal,         \* per tab: st.error / st.success raised by the last run
    called,         \* per tab: the last run called compute_et_segments
    segs_show,      \* per tab: the segments the last run displayed
    raw_vals_show   \* per tab: the raw values the last run plotted

core_vars == <<op, pc, text, raw, denom, parsed, computed>>
app_vars == <<session_state, btn, signal, called, segs_show, raw_vals_show>>
vars == <<op, pc, text, raw, denom, parsed, computed,
          session_state, btn, signal, called, segs_show, raw_vals_show>>

\* ------------------------------------------------------------------
\* Tab renderer
\* ------------------------------------------------------------------
\* a segments key that is not prefixed by the tab
segs_key_shared(tab) == <<"hrv", "segs">>

\* lines 135-138
raw_key(tab) == <<tab, "raw_text">>
denom_key(tab) == <<tab, "denom">>
raw_vals_key(tab) == <<tab, "raw_vals">>
segs_key(tab) == <<tab, "segs">>

\* st.session_state.get(k, dflt) and st.session_state[k] = v
Get(s, k, dflt) == IF k \in DOMAIN s THEN s[k] ELSE dflt
SetKey(s, k, v) == [x \in DOMAIN s \cup {k} |-> IF x = k THEN v ELSE s[x]]

\* the button branch storing without the check of line 163
click_store_unchecked(s, tab, raw_vals, out) ==
    SetKey(SetKey(s, raw_vals_key(tab), raw_vals), segs_key(tab), out.segs)

\* the button branch storing the segments only (line 167 missing)
click_store_segs_only(s, tab, raw_vals, out) ==
    IF Len(raw_vals) >= 2 /\ out.exc = "none"
    THEN SetKey(s, segs_key(tab), out.segs)
    ELSE s

\* lines 162-169: the session state after the button branch
click_store(s, tab, raw_vals, out) ==
    IF Len(raw_vals) >= 2 /\ out.exc = "none"
    THEN SetKey(SetKey(s, raw_vals_key(tab), raw_vals), segs_key(tab), out.segs)
    ELSE s

\* lines 162-197: the rest of a rendering once raw_vals is parsed (line 148)
render_parsed(s, tab, b, raw_vals) ==
    LET out == compute_et_segments(raw_vals, s[denom_key(tab)])
        s2 == IF b = tab THEN click_store(s, tab, raw_vals, out) ELSE s
    IN  [ss |-> s2,
         signal |-> IF b # tab THEN "none"
                    ELSE IF Len(raw_vals) < 2 THEN "error"
                    ELSE IF out.exc = "none" THEN "success" ELSE out.exc,
         called |-> b = tab /\ Len(raw_vals) >= 2,
         segs_show |-> Get(s2, segs_key(tab), <<>>),
         raw_vals_show |-> Get(s2, raw_vals_key(tab), raw_vals)]

\* lines 130-197: one rendering of a tab, b the tab whose button was clicked
render_tab(s, tab, b) ==
    CHOOSE r \in {render_parsed(s, tab, b, rv) :
                    rv \in {parse_series(s[raw_key(tab)]).vals}} : TRUE

\* lines 208-222: one script run renders the HRV tab, then the VO2 tab
Run(s, b) ==
    \E h \in {render_tab(s, "hrv", b)} :
      \E v \in {render_tab(h.ss, "vo2", b)} :
        /\ session_state' = v.ss
        /\ btn' = b
        /\ signal' = [t \in Tabs |-> IF t = "hrv" THEN h.signal ELSE v.signal]
        /\ called' = [t \in Tabs |-> IF t = "hrv" THEN h.called ELSE v.called]
        /\ segs_show' =
               [t \in Tabs |-> IF t = "hrv" THEN h.segs_show ELSE v.segs_show]
        /\ raw_vals_show' =
               [t \in Tabs |-> IF t = "hrv" THEN h.raw_vals_show ELSE v.raw_vals_show]

\* the widgets' values after the first script run (lines 144, 154)
InitState ==
    [k \in {raw_key(t) : t \in Tabs} \cup {denom_key(t) : t \in Tabs} |->
        IF k[2] = "raw_text" THEN default_text(k[1]) ELSE default_denom]

AppInit ==
    /\ session_state = InitState
    /\ btn = "none"
    /\ signal = [t \in Tabs |-> "none"]
    /\ called = [t \in Tabs |-> FALSE]
    /\ segs_show = [t \in Tabs |-> <<>>]
    /\ raw_vals_show = [t \in Tabs |-> parse_series(default_text(t)).vals]

CoreIdle ==
    /\ op = "none" /\ pc = "done"
    /\ text = <<>> /\ raw = <<>> /\ denom = default_denom
    /\ parsed = parse_series(<<>>)
    /\ computed = compute_et_segments(<<>>, default_denom)

\* the user edits the text area of a tab (line 142)
EditText(tab, t) ==
    /\ t # session_state[raw_key(tab)]
    /\ Run(SetKey(session_state, raw_key(tab), t), "none")
    /\ UNCHANGED core_vars

\* the user changes the denominator of a tab (line 151)
SetDenom(tab, d) ==
    /\ d # session_state[denom_key(tab)]
    /\ Run(SetKey(session_state, denom_key(tab), d), "none")
    /\ UNCHANGED core_vars

\* the user clicks the Compute button of a tab (line 160)
ClickCompute(tab) ==
    /\ Run(session_state, tab)
    /\ UNCHANGED core_vars

Init == AppInit /\ CoreIdle

Next ==
    \/ \E tab \in Tabs : \E t \in UITexts(tab) : EditText(tab, t)
    \/ \E tab \in Tabs, d \in UIDenoms : SetDenom(tab, d)
    \/ \E tab \in Tabs : ClickCompute(tab)

Spec == Init /\ [][Next]_vars

\* ------------------------------------------------------------------
\* The core functions called on their own
\* ------------------------------------------------------------------
CoreInit ==
    /\ pc = "call"
    /\ parsed = parse_series(<<>>)
    /\ computed = compute_et_segments(<<>>, default_denom)
    /\ \/ /\ op = "parse_series"
          /\ text \in Texts
          /\ raw = <<>> /\ denom = default_denom
       \/ /\ op = "compute_et_segments"
          /\ raw \in Raws /\ denom \in Denoms
          /\ text = <<>>

call_parse_series ==
    /\ pc = "call" /\ op = "parse_series"
    /\ parsed' = parse_series(text)
    /\ pc' = "done"
    /\ UNCHANGED <<op, text, raw, denom, computed>>
    /\ UNCHANGED app_vars

call_compute_et_segments ==
    /\ pc = "call" /\ op = "compute_et_segments"
    /\ computed' = compute_et_segments(raw, denom)
    /\ pc' = "done"
    /\ UNCHANGED <<op, text, raw, denom, parsed>>
    /\ UNCHANGED app_vars

InitCore == AppInit /\ CoreInit

NextCore == call_parse_series \/ call_compute_et_segments

SpecCore == InitCore /\ [][NextCore]_vars

\* ------------------------------------------------------------------
\* Properties of compute_et_segments
\* ------------------------------------------------------------------
Returned(f) == pc = "done" /\ op = f

\* C1: for a raw series of at least 2 values and a positive denominator,
\* compute_et_segments returns |raw| - 1 segments; the k-th has seg_idx = k
\* and runs from the k-th to the (k+1)-th raw value, so the indexes are
\* strictly increasing and follow the input order.
C1_SegmentsFollowInput ==
    (Returned("compute_et_segments") /\ Len(raw) >= 2 /\ IsPositive(denom)) =>
        /\ computed.exc = "none"
        /\ Len(computed.segs) = Len(raw) - 1
        /\ \A k \in 1..(Len(raw) - 1) :
              /\ computed.segs[k].seg_idx = k
              /\ computed.segs[k].raw_from = raw[k]
              /\ computed.segs[k].raw_to = raw[k + 1]
        /\ \A j, k \in 1..Len(computed.segs) :
              j < k => computed.segs[j].seg_idx < computed.segs[k].seg_idx

C1_Witness ==
    /\ Returned("compute_et_segments")
    /\ raw = ExampleRaw /\ denom = default_denom
    /\ Len(computed.segs) = 3
    /\ computed.segs[3].raw_from = Fl(35) /\ computed.segs[3].raw_to = Fl(40)

Max(a, b) == IF a >= b THEN a ELSE b

\* C2: for a raw series of fewer than 2 values and any denominator (zero
\* and negative ones included) compute_et_segments raises nothing and
\* returns the empty list; with the list of a longer series under a
\* positive denominator, the number of segments is max(0, |raw| - 1).
C2_ShortSeriesEmpty ==
    Returned("compute_et_segments") =>
        /\ Len(raw) < 2 => computed.exc = "none" /\ computed.segs = <<>>
        /\ (Len(raw) < 2 \/ IsPositive(denom)) =>
              Len(computed.segs) = Max(0, Len(raw) - 1)

C2_Witness ==
    /\ Returned("compute_et_segments")
    /\ Len(raw) = 1 /\ denom = Fl(0)
    /\ computed.exc = "none" /\ computed.segs = <<>>

\* 100 * (b - a) / a stated without the division, for finite a # 0 and b:
\* pct is the finite value with pct * a = 100 * (b - a)
IsPctOf(pct, a, b) ==
    /\ IsFinite(pct)
    /\ pct[1] * a[1] * b[2] = 100 * (b[1] * a[2] - a[1] * b[2]) * pct[2]

\* C3: in every segment from a to b, pct_delta is exactly 0 when a == 0,
\* whatever b is (the call does not raise ZeroDivisionError and the result
\* is a finite number), and is 100 * (b - a) / a otherwise; a segment that
\* starts at 0 has T = 0.
C3_ZeroGuard ==
    (Returned("compute_et_segments") /\ IsPositive(denom)) =>
        /\ computed.exc = "none"
        /\ \A k \in 1..Len(computed.segs) :
              LET sg == computed.segs[k]
                  a == sg.raw_from
                  b == sg.raw_to
              IN  /\ FIsZero(a) => sg.pct_delta = Fl(0) /\ sg.T = Fl(0)
                  /\ (~FIsZero(a) /\ IsFinite(a) /\ IsFinite(b)) =>
                        IsPctOf(sg.pct_delta, a, b)
                  /\ (~FIsZero(a) /\ ~(IsFinite(a) /\ IsFinite(b))) =>
                        sg.pct_delta = FDiv(FMul(Fl(100), FSub(b, a)), a)

C3_Witness ==
    /\ Returned("compute_et_segments")
    /\ raw = ZeroRaw /\ denom = default_denom
    /\ Len(computed.segs) = 1
    /\ computed.segs[1].pct_delta = Fl(0) /\ computed.segs[1].T = Fl(0)

\* T = pct / denom for a positive denom, stated without the division
IsQuotient(T, pct, dn) ==
    IF IsFinite(pct) /\ IsFinite(dn)
    THEN IsFinite(T) /\ T[1] * dn[1] * pct[2] = pct[1] * dn[2] * T[2]
    ELSE IF IsFinite(pct) THEN T = Fl(0)
    ELSE IF IsFinite(dn) THEN T = pct
    ELSE T = NaN

\* E = 1 - T * T, stated through cross-multiplication
IsOneMinusSquare(E, T) ==
    IF IsFinite(T)
    THEN IsFinite(E) /\ E[1] * T[2] * T[2] = (T[2] * T[2] - T[1] * T[1]) * E[2]
    ELSE IF IsInf(T) THEN E = NegInf
    ELSE E = NaN

FAbsGtOne(T) == FLt(Fl(1), T) \/ FLt(T, Fl(-1))

SegmentTE(sg, dn) ==
    /\ IsQuotient(sg.T, sg.pct_delta, dn)
    /\ IsOneMinusSquare(sg.E, sg.T)
    /\ FLe(sg.E, Fl(1))
    /\ FAbsGtOne(sg.T) => FLt(sg.E, Fl(0))

\* C4 as stated: every segment of every call with a positive denominator
\* has T = pct_delta / denom, E = 1 - T*T, E <= 1, and E < 0 when |T| > 1.
C4_Original ==
    (Returned("compute_et_segments") /\ IsPositive(denom)) =>
        \A k \in 1..Len(computed.segs) : SegmentTE(computed.segs[k], denom)

\* C4 (amended): every segment has T = pct_delta / denom and E = 1 - T*T;
\* whenever T is not nan, E <= 1 and E < 0 when |T| > 1; when T is nan
\* (a nan or infinite raw value or denominator made the quotient
\* undefined) E is nan as well.
C4_TandE ==
    (Returned("compute_et_segments") /\ IsPositive(denom)) =>
        \A k \in 1..Len(computed.segs) :
            LET sg == computed.segs[k]
            IN  /\ IsQuotient(sg.T, sg.pct_delta, denom)
                /\ IsOneMinusSquare(sg.E, sg.T)
                /\ ~IsNaN(sg.T) => SegmentTE(sg, denom)
                /\ IsNaN(sg.T) => IsNaN(sg.E)

C4_Witness ==
    /\ Returned("compute_et_segments")
    /\ raw = <<Fl(1), Fl(2), NaN>> /\ denom = default_denom
    /\ computed.segs[1].T = <<5, 4>> /\ computed.segs[1].E = <<-9, 16>>
    /\ IsNaN(computed.segs[2].E)

\* ------------------------------------------------------------------
\* Properties of parse_series
\* ------------------------------------------------------------------
\* the tokens of t: the maximal runs of characters that are neither a
\* comma, nor whitespace, nor a semicolon, as <<first, last>> positions
IsSep(c) == c \in {",", ";", " ", "\n", "\t"}

TokenSpans(t) ==
    {sp \in (1..Len(t)) \X (1..Len(t)) :
        /\ sp[1] <= sp[2]
        /\ \A i \in sp[1]..sp[2] : ~IsSep(t[i])
        /\ (sp[1] = 1 \/ IsSep(t[sp[1] - 1]))
        /\ (sp[2] = Len(t) \/ IsSep(t[sp[2] + 1]))}

Token(t, sp) == SubSeq(t, sp[1], sp[2])
ValidSpans(t) == {sp \in TokenSpans(t) : float_(Token(t, sp)).exc = "none"}
InvalidSpans(t) == TokenSpans(t) \ ValidSpans(t)

\* the values of the valid tokens of t, in the order of the text
ValidValues(t) ==
    LET V == ValidSpans(t)
        nth(k) == CHOOSE sp \in V :
                      Cardinality({q \in V : q[1] < sp[1]}) = k - 1
    IN  [k \in 1..Cardinality(V) |-> float_(Token(t, nth(k))).val]

\* C5: for every text, parse_series raises nothing and returns the values
\* of exactly those tokens (split on runs of comma, whitespace, semicolon)
\* that are float literals, in the order of the text, invalid tokens
\* dropped, nothing deduplicated or sorted.
C5_PermissiveParse ==
    Returned("parse_series") =>
        /\ parsed.exc = "none"
        /\ parsed.vals = ValidValues(text)

C5_Witness ==
    /\ Returned("parse_series")
    /\ text = ExampleText
    /\ parsed.vals = <<Fl(25), Fl(30), Fl(40)>>

FirstInvalidToken(t) ==
    Token(t, CHOOSE sp \in InvalidSpans(t) :
                 \A q \in InvalidSpans(t) : sp[1] <= q[1])

Stored(s, tab) ==
    [k \in {raw_vals_key(tab), segs_key(tab)} \cap DOMAIN s |-> s[k]]

\* all the entries of a tab
TabState(s, tab) == [k \in {q \in DOMAIN s : q[1] = tab} |-> s[k]]

Points(s, tab) == Len(parse_series(s[raw_key(tab)]).vals)

\* C8: a Compute click in a tab whose text parses to fewer than 2 points
\* signals an error, does not call compute_et_segments and leaves the
\* stored raw values and segments of the tab as they were (absent, or
\* those of the last successful compute); these are what the run displays.
C8_FailedClick ==
    [][\A tab \in Tabs :
         (btn' = tab /\ Points(session_state, tab) < 2) =>
            /\ signal'[tab] = "error"
            /\ ~called'[tab]
            /\ Stored(session_state', tab) = Stored(session_state, tab)
            /\ segs_show'[tab] = Get(session_state, segs_key(tab), <<>>)
            /\ raw_vals_key(tab) \in DOMAIN session_state =>
                  raw_vals_show'[tab] = session_state[raw_vals_key(tab)]]_vars

C8_Witness ==
    /\ btn = "hrv" /\ signal["hrv"] = "error"
    /\ Points(session_state, "hrv") = 1
    /\ segs_key("hrv") \in DOMAIN session_state
    /\ Len(segs_show["hrv"]) = 10

C9_Consistent(s, tab) ==
    /\ raw_vals_key(tab) \in DOMAIN s <=> segs_key(tab) \in DOMAIN s
    /\ segs_key(tab) \in DOMAIN s =>
          LET rv == s[raw_vals_key(tab)]
              sg == s[segs_key(tab)]
          IN  /\ Len(sg) = Len(rv) - 1
              /\ Len(sg) >= 1
              /\ \A k \in 1..Len(sg) :
                    sg[k].raw_from = rv[k] /\ sg[k].raw_to = rv[k + 1]

\* C9: in every state of the session and for each tab, the stored raw
\* values and stored segments are both absent or both present, and when
\* present |segs| = |raw values| - 1 >= 1 with segment k running from raw
\* value k to raw value k+1; a step that is not a successful Compute click
\* of the tab leaves its stored pair unchanged.
C9_StoredPair ==
    /\ [](\A tab \in Tabs : C9_Consistent(session_state, tab))
    /\ [][\A tab \in Tabs :
            ~(btn' = tab /\ signal'[tab] = "success") =>
                Stored(session_state', tab) = Stored(session_state, tab)]_vars

C9_Witness ==
    /\ segs_key("vo2") \in DOMAIN session_state
    /\ Len(session_state[segs_key("vo2")]) = 10
    /\ session_state[raw_key("vo2")] = <<"7">>
    /\ session_state[denom_key("vo2")] # default_denom

Other(tab) == IF tab = "hrv" THEN "vo2" ELSE "hrv"

\* C10: every step (text edit, denominator change, successful or failed
\* Compute click) acts in one tab only: the text, denominator, raw values
\* and segments stored for the other tab are unchanged, and a click in a
\* tab never changes the entries of the other one.
C10_TabsSeparate ==
    [][/\ \E tab \in Tabs :
             TabState(session_state', Other(tab)) = TabState(session_state, Other(tab))
       /\ \A tab \in Tabs :
             btn' = tab =>
                TabState(session_state', Other(tab)) = TabState(session_state, Other(tab))]_vars

C10_Witness ==
    /\ btn = "vo2" /\ signal["vo2"] = "success"
    /\ segs_key("hrv") \in DOMAIN session_state
    /\ segs_key("vo2") \in DOMAIN session_state
    /\ session_state[segs_key("hrv")] # session_state[segs_key("vo2")]

====
